---- MODULE Spec2Model ----
(***************************************************************************)
(* Model of src/app.py, the Streamlit property-evaluation script.          *)
(*                                                                         *)
(* Streamlit runs the whole script from top to bottom once per user        *)
(* interaction (one "cycle").  Widget values live in the session and       *)
(* survive a cycle; every script variable is rebound, or left unbound,     *)
(* by the cycle that runs.  st.button() is True only in the cycle its      *)
(* click started.                                                          *)
(*                                                                         *)
(* Text is a sequence of one-character strings, so that split(), strip()   *)
(* and int() are computed character by character as Python computes them.  *)
(***************************************************************************)
EXTENDS Integers, Sequences, FiniteSets, TLC

\* ------------------------------------------------------------------ bounds

\* Longest "Units by Type" text drawn in SpecParse.
MaxLen == 6
\* Longest list-field text drawn in SpecLists.
MaxListLen == 2
\* Largest value of each numeric input drawn in SpecEval.
MaxNum == 2

\* Characters the drawn texts are made of: the two separators, a blank, a
\* sign, a letter and two digits.
Chars == {",", ":", " ", "-", "a", "1", "2"}

TextsUpTo(n) == UNION {[1..k -> Chars] : k \in 0..n}

\* ------------------------------------------------------------------- state

\* widgets: the session's widget values, which survive a cycle.
\* wraps_json_error: whether the installed requests raises its own
\*   JSONDecodeError (a RequestException) for a body that is not JSON.
\* trigger: what started the last cycle; response: the remote outcome the
\*   census call of that cycle met.
\* The rest are the script's variables and effects of the last cycle: bound
\*   names the variables it assigned, messages the boxes it showed, calls the
\*   gateway functions it called, http_requests its outbound requests,
\*   evaluations the times it computed the metrics, exception what ended it.
VARIABLES widgets, wraps_json_error, trigger, response,
          gov_programs, improvement_districts, avg_income,
          avg_dwelling_price_rent, units_by_type_dict,
          total_cost, noi, profit, roi,
          messages, exception, bound, http_requests, calls, evaluations

vars == <<widgets, wraps_json_error, trigger, response,
          gov_programs, improvement_districts, avg_income,
          avg_dwelling_price_rent, units_by_type_dict,
          total_cost, noi, profit, roi,
          messages, exception, bound, http_requests, calls, evaluations>>

\* ------------------------------------------------------- Python str helpers

\* str.split(sep) for a one-character sep: every occurrence separates, empty
\* segments are kept, and the empty text gives one empty segment.
RECURSIVE PySplit(_, _)
PySplit(s, sep) ==
    IF \A i \in 1..Len(s) : s[i] # sep
    THEN <<s>>
    ELSE LET i == CHOOSE k \in 1..Len(s) :
                      s[k] = sep /\ \A j \in 1..(k - 1) : s[j] # sep
         IN  <<SubSeq(s, 1, i - 1)>> \o PySplit(SubSeq(s, i + 1, Len(s)), sep)

\* `sub in s` for a one-character sub.
PyContains(s, c) == \E i \in 1..Len(s) : s[i] = c

Whitespace == {" ", "\t", "\n", "\r"}

\* str.strip(): leading and trailing whitespace removed, inner kept.
PyStrip(s) ==
    IF \A i \in 1..Len(s) : s[i] \in Whitespace
    THEN <<>>
    ELSE LET lo == CHOOSE k \in 1..Len(s) :
                       s[k] \notin Whitespace
                       /\ \A j \in 1..(k - 1) : s[j] \in Whitespace
             hi == CHOOSE k \in 1..Len(s) :
                       s[k] \notin Whitespace
                       /\ \A j \in (k + 1)..Len(s) : s[j] \in Whitespace
         IN  SubSeq(s, lo, hi)

Digits == {"0", "1", "2", "3", "4", "5", "6", "7", "8", "9"}

DigitVal(c) ==
    CASE c = "0" -> 0 [] c = "1" -> 1 [] c = "2" -> 2 [] c = "3" -> 3
      [] c = "4" -> 4 [] c = "5" -> 5 [] c = "6" -> 6 [] c = "7" -> 7
      [] c = "8" -> 8 [] c = "9" -> 9

\* The decimal value of a digit string in which "_" may separate digits.
RECURSIVE DecimalValue(_)
DecimalValue(s) ==
    IF s = <<>> THEN 0
    ELSE IF s[Len(s)] = "_" THEN DecimalValue(SubSeq(s, 1, Len(s) - 1))
    ELSE 10 * DecimalValue(SubSeq(s, 1, Len(s) - 1)) + DigitVal(s[Len(s)])

\* The literal int() accepts after the optional sign: digits, with single
\* underscores allowed between two digits.
IsDigitString(s) ==
    /\ s # <<>>
    /\ \A i \in 1..Len(s) : s[i] \in Digits \cup {"_"}
    /\ s[1] # "_" /\ s[Len(s)] # "_"
    /\ \A i \in 1..(Len(s) - 1) : ~(s[i] = "_" /\ s[i + 1] = "_")

\* int(s) for a str: surrounding whitespace ignored, one optional sign,
\* base 10.  ok = FALSE stands for ValueError.
PyInt(s) ==
    LET t    == PyStrip(s)
        sgn  == t # <<>> /\ t[1] \in {"+", "-"}
        body == IF sgn THEN SubSeq(t, 2, Len(t)) ELSE t
    IN  IF IsDigitString(body)
        THEN [ok  |-> TRUE,
              val |-> IF sgn /\ t[1] = "-" THEN 0 - DecimalValue(body)
                                           ELSE DecimalValue(body)]
        ELSE [ok |-> FALSE, val |-> 0]

\* ------------------------------------------------------------- unit mix

EmptyDict == [k \in {} |-> 0]

\* A repeated key keeps the count it was first given (dict.setdefault).
DictSetFirst(d, key, val) ==
    [k \in DOMAIN d \cup {key} |-> IF k \in DOMAIN d THEN d[k] ELSE val]

\* units_by_type_dict[key] = val
DictSet(d, key, val) ==
    [k \in DOMAIN d \cup {key} |-> IF k = key THEN val ELSE d[k]]

UnitWarning(key, val) ==
    [kind |-> "warning", src |-> "units", label |-> key, value |-> val]

\* The loop over units_by_type_input from item i on.  acc holds the dict,
\* the boxes shown so far and the exception that ended the loop, if any.
RECURSIVE ParseLoop(_, _, _)
ParseLoop(items, i, acc) ==
    IF i > Len(items) \/ acc.exception # "none" THEN acc
    ELSE LET item == items[i] IN
         IF ~PyContains(item, ":") THEN ParseLoop(items, i + 1, acc)
         ELSE LET parts == PySplit(item, ":") IN
              IF Len(parts) # 2
              THEN \* key, val = ... : too many values to unpack
                   [acc EXCEPT !.exception = "ValueError"]
              ELSE LET key == parts[1]
                       val == parts[2]
                       n   == PyInt(PyStrip(val))
                   IN  IF n.ok
                       THEN ParseLoop(items, i + 1,
                                [acc EXCEPT !.dict =
                                     DictSet(acc.dict, PyStrip(key), n.val)])
                       ELSE ParseLoop(items, i + 1,
                                [acc EXCEPT !.messages =
                                     Append(acc.messages,
                                            UnitWarning(PyStrip(key),
                                                        PyStrip(val)))])

\* Lines 86-95: split the text area on commas and fill units_by_type_dict.
ParseUnitMix(text, shown) ==
    ParseLoop(PySplit(text, ","), 1,
              [dict |-> EmptyDict, messages |-> shown, exception |-> "none"])

\* ------------------------------------------------------ Python values

\* A value the script can hold in avg_income: a tagged record of one shape.
PyNone == [tag |-> "none", n |-> 0, chars |-> <<>>, items |-> <<>>]
PyIntV(k) == [tag |-> "int", n |-> k, chars |-> <<>>, items |-> <<>>]
PyStr(cs) == [tag |-> "str", n |-> 0, chars |-> cs, items |-> <<>>]
PyList(vs) == [tag |-> "list", n |-> 0, chars |-> <<>>, items |-> vs]
PyDict == [tag |-> "dict", n |-> 0, chars |-> <<>>, items |-> <<>>]

\* v[i] for a non-negative int i.  A JSON object has str keys only, so an
\* int subscript of a dict is a KeyError.
PyIndex(v, i) ==
    CASE v.tag = "list" ->
             IF i < Len(v.items)
             THEN [exception |-> "none", val |-> v.items[i + 1]]
             ELSE [exception |-> "IndexError", val |-> PyNone]
      [] v.tag = "str" ->
             IF i < Len(v.chars)
             THEN [exception |-> "none", val |-> PyStr(<<v.chars[i + 1]>>)]
             ELSE [exception |-> "IndexError", val |-> PyNone]
      [] v.tag = "dict" -> [exception |-> "KeyError", val |-> PyNone]
      [] OTHER -> [exception |-> "TypeError", val |-> PyNone]

\* ------------------------------------------------- external data functions

NA == PyStr(<<"N", "/", "A">>)

\* The exceptions `except requests.RequestException` catches.  A body that is
\* not JSON raises requests.exceptions.JSONDecodeError, a RequestException,
\* in requests 2.27 and later, and a plain ValueError before; the repository
\* pins no version, so wraps says which of the two the installation does.
IsRequestException(e, wraps) ==
    \/ e \in {"ConnectionError", "Timeout", "HTTPError"}
    \/ e = "JSONDecodeError" /\ wraps

\* Lines 23-26, the body of the try: requests.get, raise_for_status (which
\* raises for a 4xx or 5xx status only), response.json(), data[1][1].
CensusTry(resp, wraps) ==
    IF resp.transport # "ok"
    THEN [exception |-> resp.transport, val |-> PyNone]
    ELSE IF resp.status = "4xx5xx"
    THEN [exception |-> "HTTPError", val |-> PyNone]
    ELSE IF ~resp.is_json
    THEN [exception |-> "JSONDecodeError", val |-> PyNone]
    ELSE LET row == PyIndex(resp.body, 1) IN
         IF row.exception # "none"
         THEN [exception |-> row.exception, val |-> PyNone]
         ELSE PyIndex(row.val, 1)

Note(kind, src) == [kind |-> kind, src |-> src, label |-> <<>>, value |-> <<>>]

\* get_census_data: one outbound GET; a RequestException is shown with
\* st.error and answered with "N/A", any other exception propagates.
get_census_data(resp, wraps) ==
    LET t == CensusTry(resp, wraps) IN
    IF t.exception = "none"
    THEN [exception |-> "none", val |-> t.val, notes |-> <<>>, requests |-> 1]
    ELSE IF IsRequestException(t.exception, wraps)
    THEN [exception |-> "none", val |-> NA,
          notes |-> <<Note("error", "census")>>, requests |-> 1]
    ELSE [exception |-> t.exception, val |-> PyNone, notes |-> <<>>,
          requests |-> 1]

ZillowSample == 2500

\* The stub wired to a remote endpoint: one outbound request per call.
ZillowRemote(address, key) ==
    [val |-> ZillowSample, notes |-> <<Note("warning", "zillow")>>,
     requests |-> 1]

\* get_zillow_rent_zestimate: a notice and the sample value, no request.
get_zillow_rent_zestimate(address, key) ==
    [val |-> ZillowSample, notes |-> <<Note("warning", "zillow")>>,
     requests |-> 0]

\* ------------------------------------------------------------ evaluation

RECURSIVE GCD(_, _)
GCD(a, b) == IF b = 0 THEN a ELSE GCD(b, a % b)

Abs(x) == IF x < 0 THEN 0 - x ELSE x

\* The number n/d (d > 0) in lowest terms.  Python computes the quotient in
\* binary floating point; the model keeps the exact quotient.
Rat(n, d) == LET g == GCD(Abs(n), d) IN [num |-> n \div g, den |-> d \div g]

\* a / b; b = 0 raises ZeroDivisionError.
PyTrueDiv(a, b) ==
    IF b = 0 THEN [exception |-> "ZeroDivisionError", val |-> Rat(0, 1)]
    ELSE [exception |-> "none", val |-> Rat(a, b)]

RatTimes(r, k) == Rat(r.num * k, r.den)

\* Line 104 without the conversion costs.
TotalCostNoConversion(n) == n.bldg_sqft * n.cost_per_sqft

\* Line 104.
TotalCost(n) == (n.bldg_sqft * n.cost_per_sqft) + n.conversion_costs

\* Line 105.
Noi(n) == n.rental_income - n.operating_expenses

\* Line 106.
Profit(n, total) == n.condo_sellout - total

\* Line 107 without the `if total_cost` guard.
RoiUnguarded(p, total) ==
    LET q == PyTrueDiv(p, total) IN
    [exception |-> q.exception, val |-> RatTimes(q.val, 100)]

\* Line 107: the condition is evaluated first, so the division runs only
\* for a non-zero total_cost.
Roi(p, total) ==
    IF total # 0
    THEN LET q == PyTrueDiv(p, total) IN
         [exception |-> q.exception, val |-> RatTimes(q.val, 100)]
    ELSE [exception |-> "none", val |-> Rat(0, 1)]

\* ------------------------------------------------------------ the script

DefaultAvgIncome == 85000
DefaultRent == 2500

\* The script's variables before a cycle has bound any of them.  bound names
\* the variables the cycle has assigned; the other fields are placeholders.
BlankRun ==
    [gov_programs |-> <<>>, improvement_districts |-> <<>>,
     avg_income |-> PyNone, avg_dwelling_price_rent |-> 0,
     units_by_type_dict |-> EmptyDict,
     total_cost |-> 0, noi |-> 0, profit |-> 0, roi |-> Rat(0, 1),
     messages |-> <<>>, exception |-> "none", bound |-> {},
     http_requests |-> 0, calls |-> <<>>, evaluations |-> 0]

\* Lines 57-58: the two text areas split on commas, nothing else.
ListsStage(r, gov, districts) ==
    IF r.exception # "none" THEN r
    ELSE [r EXCEPT !.gov_programs = PySplit(gov, ","),
                   !.improvement_districts = PySplit(districts, ","),
                   !.bound = @ \cup {"gov_programs", "improvement_districts"}]

\* Lines 67-71: the census button.  An exception out of get_census_data
\* ends the cycle with avg_income unbound.
IncomeStage(r, clicked, resp, wraps) ==
    IF r.exception # "none" THEN r
    ELSE IF clicked
    THEN LET c == get_census_data(resp, wraps) IN
         IF c.exception # "none"
         THEN [r EXCEPT !.exception = c.exception,
                        !.http_requests = @ + c.requests,
                        !.calls = Append(@, "get_census_data")]
         ELSE [r EXCEPT !.avg_income = c.val,
                        !.messages = @ \o c.notes
                                       \o <<Note("success", "census")>>,
                        !.http_requests = @ + c.requests,
                        !.calls = Append(@, "get_census_data"),
                        !.bound = @ \cup {"avg_income"}]
    ELSE [r EXCEPT !.avg_income = PyIntV(DefaultAvgIncome),
                   !.bound = @ \cup {"avg_income"}]

\* Lines 73-78: the Zillow button.
RentStage(r, clicked, address, key) ==
    IF r.exception # "none" THEN r
    ELSE IF clicked
    THEN LET z == get_zillow_rent_zestimate(address, key) IN
         [r EXCEPT !.avg_dwelling_price_rent = z.val,
                   !.messages = @ \o z.notes \o <<Note("success", "zillow")>>,
                   !.http_requests = @ + z.requests,
                   !.calls = Append(@, "get_zillow_rent_zestimate"),
                   !.bound = @ \cup {"avg_dwelling_price_rent"}]
    ELSE [r EXCEPT !.avg_dwelling_price_rent = DefaultRent,
                   !.bound = @ \cup {"avg_dwelling_price_rent"}]

\* Lines 86-95.  The unpacking error of line 91 is outside the try, so it
\* ends the cycle; units_by_type_dict keeps what the loop had stored.
UnitsStage(r, text) ==
    IF r.exception # "none" THEN r
    ELSE LET p == ParseUnitMix(text, r.messages) IN
         [r EXCEPT !.units_by_type_dict = p.dict,
                   !.messages = p.messages,
                   !.exception = p.exception,
                   !.bound = @ \cup {"units_by_type_dict"}]

\* The metrics are computed in every cycle, whatever started it.
EvaluateAlways(r, clicked, n) ==
    IF r.exception # "none" THEN r
    ELSE LET total == TotalCost(n)
             p     == Profit(n, total)
             q     == Roi(p, total)
         IN  IF q.exception # "none"
             THEN [r EXCEPT !.total_cost = total, !.noi = Noi(n),
                            !.profit = p, !.exception = q.exception,
                            !.evaluations = @ + 1,
                            !.bound = @ \cup {"total_cost", "noi", "profit"}]
             ELSE [r EXCEPT !.total_cost = total, !.noi = Noi(n),
                            !.profit = p, !.roi = q.val,
                            !.evaluations = @ + 1,
                            !.messages = @ \o <<Note("success", "evaluate"),
                                                Note("metric", "total_cost"),
                                                Note("metric", "noi"),
                                                Note("metric", "roi"),
                                                Note("write", "unit_mix")>>,
                            !.bound = @ \cup {"total_cost", "noi", "profit",
                                              "roi"}]

\* Lines 103-118: the Evaluate button.  The displayed strings (two-decimal
\* formatting, one line per unit type) are not modelled, only that the
\* success box, the three metrics and the unit-mix summary are shown.
EvaluateStage(r, clicked, n) ==
    IF r.exception # "none" \/ ~clicked THEN r
    ELSE LET total == TotalCost(n)
             p     == Profit(n, total)
             q     == Roi(p, total)
         IN  IF q.exception # "none"
             THEN [r EXCEPT !.total_cost = total, !.noi = Noi(n),
                            !.profit = p, !.exception = q.exception,
                            !.evaluations = @ + 1,
                            !.bound = @ \cup {"total_cost", "noi", "profit"}]
             ELSE [r EXCEPT !.total_cost = total, !.noi = Noi(n),
                            !.profit = p, !.roi = q.val,
                            !.evaluations = @ + 1,
                            !.messages = @ \o <<Note("success", "evaluate"),
                                                Note("metric", "total_cost"),
                                                Note("metric", "noi"),
                                                Note("metric", "roi"),
                                                Note("write", "unit_mix")>>,
                            !.bound = @ \cup {"total_cost", "noi", "profit",
                                              "roi"}]

\* One run of the script, top to bottom, for the widget values w.
RunScript(w, trig, resp, wraps) ==
    LET r1 == ListsStage(BlankRun, w.gov_text, w.districts_text)
        r2 == IncomeStage(r1, trig = "fetch_income", resp, wraps)
        r3 == RentStage(r2, trig = "fetch_rent", w.property_address,
                        w.zillow_api_key)
        r4 == UnitsStage(r3, w.units_text)
    IN  EvaluateStage(r4, trig = "evaluate", w.nums)

\* The script's variables take what the run r left.
Commit(r) ==
    /\ gov_programs' = r.gov_programs
    /\ improvement_districts' = r.improvement_districts
    /\ avg_income' = r.avg_income
    /\ avg_dwelling_price_rent' = r.avg_dwelling_price_rent
    /\ units_by_type_dict' = r.units_by_type_dict
    /\ total_cost' = r.total_cost
    /\ noi' = r.noi
    /\ profit' = r.profit
    /\ roi' = r.roi
    /\ messages' = r.messages
    /\ exception' = r.exception
    /\ bound' = r.bound
    /\ http_requests' = r.http_requests
    /\ calls' = r.calls
    /\ evaluations' = r.evaluations

Holds(r) ==
    /\ gov_programs = r.gov_programs
    /\ improvement_districts = r.improvement_districts
    /\ avg_income = r.avg_income
    /\ avg_dwelling_price_rent = r.avg_dwelling_price_rent
    /\ units_by_type_dict = r.units_by_type_dict
    /\ total_cost = r.total_cost
    /\ noi = r.noi
    /\ profit = r.profit
    /\ roi = r.roi
    /\ messages = r.messages
    /\ exception = r.exception
    /\ bound = r.bound
    /\ http_requests = r.http_requests
    /\ calls = r.calls
    /\ evaluations = r.evaluations

\* ------------------------------------------------------------ the inputs

\* The number inputs' `value=` defaults (lines 59, 85, 98-101).
DefaultNums ==
    [bldg_sqft |-> 50000, cost_per_sqft |-> 200,
     conversion_costs |-> 3000000, rental_income |-> 1200000,
     operating_expenses |-> 400000, condo_sellout |-> 20000000]

\* Every widget at its default: empty texts, blank keys, default numbers.
DefaultWidgets ==
    [gov_text |-> <<>>, districts_text |-> <<>>, units_text |-> <<>>,
     property_address |-> <<>>, zillow_api_key |-> <<>>,
     nums |-> DefaultNums]

NoResponse ==
    [transport |-> "none", status |-> "none", is_json |-> FALSE,
     body |-> PyNone]

HeaderRow == PyList(<<PyStr(<<"N">>), PyStr(<<"B">>)>>)

\* Bodies the statistics API can answer with: the two-row table, tables that
\* are too short, and JSON that is no table at all.
JsonBodies ==
    { PyList(<<HeaderRow, PyList(<<PyStr(<<"X">>), PyStr(<<"7">>)>>)>>),
      PyList(<<HeaderRow, PyList(<<PyStr(<<"X">>), PyIntV(7)>>)>>),
      PyList(<<HeaderRow, PyList(<<PyStr(<<"X">>), PyNone>>)>>),
      PyList(<<>>),
      PyList(<<HeaderRow>>),
      PyList(<<HeaderRow, PyList(<<>>)>>),
      PyList(<<HeaderRow, PyList(<<PyStr(<<"X">>)>>)>>),
      PyList(<<HeaderRow, PyStr(<<"a", "b">>)>>),
      PyList(<<HeaderRow, PyIntV(7)>>),
      PyList(<<HeaderRow, PyDict>>),
      PyDict,
      PyStr(<<"a", "b">>),
      PyIntV(7),
      PyNone }

Statuses == {"2xx", "3xx", "4xx5xx"}

GoodBody ==
    PyList(<<HeaderRow, PyList(<<PyStr(<<"X">>), PyStr(<<"7">>)>>)>>)

\* Outcomes of the GET: a transport failure, a body that is not JSON under
\* each status class, every JSON body under a 2xx status, and the two-row
\* table under the other two.
Responses ==
    {[transport |-> t, status |-> "none", is_json |-> FALSE, body |-> PyNone] :
        t \in {"ConnectionError", "Timeout"}}
    \cup {[transport |-> "ok", status |-> st, is_json |-> FALSE,
           body |-> PyNone] : st \in Statuses}
    \cup {[transport |-> "ok", status |-> "2xx", is_json |-> TRUE,
           body |-> b] : b \in JsonBodies}
    \cup {[transport |-> "ok", status |-> st, is_json |-> TRUE,
           body |-> GoodBody] : st \in Statuses}

\* Texts typed into the widgets in Spec.
AppUnitTexts ==
    { <<>>,
      <<"a", ":", "1", ",", "a", ":", "2">>,
      <<"1", ":", "2", ",", "a", ":", "a">>,
      <<"a", ":", "1", ":", "2">> }

AppListTexts == { <<>>, <<"a", ",", " ", "a">> }

AppKeys == { <<>>, <<"a">> }

AppNums ==
    { DefaultNums,
      [DefaultNums EXCEPT !.bldg_sqft = 0, !.conversion_costs = 0],
      [DefaultNums EXCEPT !.condo_sellout = 1, !.operating_expenses = 1200001] }

\* ------------------------------------------------------------- the cycles

\* The page as first loaded: one run with no button clicked.
Init ==
    /\ widgets = DefaultWidgets
    /\ wraps_json_error \in BOOLEAN
    /\ trigger = "load"
    /\ response = NoResponse
    /\ Holds(RunScript(DefaultWidgets, "load", NoResponse, wraps_json_error))

Cycle(w, trig, resp) ==
    /\ widgets' = w
    /\ trigger' = trig
    /\ response' = resp
    /\ Commit(RunScript(w, trig, resp, wraps_json_error))
    /\ UNCHANGED wraps_json_error

\* A widget edit reruns the script with no button clicked.
EditUnits ==
    \E t \in AppUnitTexts \ {widgets.units_text} :
        Cycle([widgets EXCEPT !.units_text = t], "edit", NoResponse)

EditLists ==
    \E f \in {"gov_text", "districts_text"} :
        \E t \in AppListTexts \ {widgets[f]} :
            Cycle([widgets EXCEPT ![f] = t], "edit", NoResponse)

EditNums ==
    \E n \in AppNums \ {widgets.nums} :
        Cycle([widgets EXCEPT !.nums = n], "edit", NoResponse)

EditRentQuery ==
    \E f \in {"property_address", "zillow_api_key"} :
        \E t \in AppKeys \ {widgets[f]} :
            Cycle([widgets EXCEPT ![f] = t], "edit", NoResponse)

\* "Get Census Median Income" clicked; the remote side answers resp.
ClickCensus == \E resp \in Responses : Cycle(widgets, "fetch_income", resp)

\* "Get Zillow Rent Zestimate" clicked.
ClickZillow == Cycle(widgets, "fetch_rent", NoResponse)

\* "Evaluate Property" clicked.
ClickEvaluate == Cycle(widgets, "evaluate", NoResponse)

Next ==
    \/ EditUnits
    \/ EditLists
    \/ EditNums
    \/ EditRentQuery
    \/ ClickCensus
    \/ ClickZillow
    \/ ClickEvaluate

Spec == Init /\ [][Next]_vars

\* ------------------------------------------- the functions on their own

\* Nothing has run yet.
Fresh(w) ==
    /\ widgets = w
    /\ wraps_json_error = TRUE
    /\ trigger = "none"
    /\ response = NoResponse
    /\ Holds(BlankRun)

Call(r) ==
    /\ trigger = "none"
    /\ trigger' = "call"
    /\ Commit(r)
    /\ UNCHANGED <<widgets, wraps_json_error, response>>

\* The unit-mix parser over every text of up to MaxLen characters.
InitParse ==
    \E t \in TextsUpTo(MaxLen) : Fresh([DefaultWidgets EXCEPT !.units_text = t])

ParseOnly == Call(UnitsStage(BlankRun, widgets.units_text))

NextParse == ParseOnly

SpecParse == InitParse /\ [][NextParse]_vars

\* The list fields over every pair of texts of up to MaxListLen characters.
InitLists ==
    \E g \in TextsUpTo(MaxListLen), d \in TextsUpTo(MaxListLen) :
        Fresh([DefaultWidgets EXCEPT !.gov_text = g, !.districts_text = d])

ListsOnly ==
    Call(ListsStage(BlankRun, widgets.gov_text, widgets.districts_text))

NextLists == ListsOnly

SpecLists == InitLists /\ [][NextLists]_vars

\* The metrics over every combination of small inputs, and the defaults.
SmallNums ==
    [bldg_sqft : 0..MaxNum, cost_per_sqft : 0..MaxNum,
     conversion_costs : 0..MaxNum, rental_income : 0..MaxNum,
     operating_expenses : 0..MaxNum, condo_sellout : 0..MaxNum]

InitEval ==
    \E n \in SmallNums \cup {DefaultNums} :
        Fresh([DefaultWidgets EXCEPT !.nums = n])

EvaluateOnly == Call(EvaluateStage(BlankRun, TRUE, widgets.nums))

NextEval == EvaluateOnly

SpecEval == InitEval /\ [][NextEval]_vars

\* ------------------------------------------------------------ properties

Shown(m) == \E i \in 1..Len(messages) : messages[i] = m

\* A JSON array of at least two arrays whose second has two columns or more.
WellFormedTable(b) ==
    /\ b.tag = "list"
    /\ Len(b.items) >= 2
    /\ \A i \in 1..Len(b.items) : b.items[i].tag = "list"
    /\ Len(b.items[2].items) >= 2

\* A network error, a non-2xx status or a malformed body.
CensusFails(resp) ==
    \/ resp.transport # "ok"
    \/ resp.status # "2xx"
    \/ ~resp.is_json
    \/ ~WellFormedTable(resp.body)

\* C1: in a cycle started by "fetch income", get_census_data returns for
\* every outcome of the remote call (avg_income is bound): "N/A" with an
\* error shown when the call failed or the body is malformed, and row 1 /
\* column 1 of the payload otherwise.
CensusNeverRaises ==
    trigger = "fetch_income" =>
        /\ "avg_income" \in bound
        /\ IF CensusFails(response)
           THEN avg_income = NA /\ Shown(Note("error", "census"))
           ELSE avg_income = response.body.items[2].items[2]

\* The text before the first ":" of a token, trimmed, and the text after it,
\* trimmed.
FirstColon(tok) ==
    CHOOSE p \in 1..Len(tok) :
        tok[p] = ":" /\ \A j \in 1..(p - 1) : tok[j] # ":"

LabelOf(tok) == PyStrip(SubSeq(tok, 1, FirstColon(tok) - 1))

CountTextOf(tok) == PyStrip(SubSeq(tok, FirstColon(tok) + 1, Len(tok)))

\* The warnings the tokens from i on call for, in token order.
RECURSIVE ExpectedWarnings(_, _)
ExpectedWarnings(toks, i) ==
    IF i > Len(toks) THEN <<>>
    ELSE IF PyContains(toks[i], ":") /\ ~PyInt(CountTextOf(toks[i])).ok
    THEN <<UnitWarning(LabelOf(toks[i]), CountTextOf(toks[i]))>>
         \o ExpectedWarnings(toks, i + 1)
    ELSE ExpectedWarnings(toks, i + 1)

UnitTokens == PySplit(widgets.units_text, ",")

\* C2: the parser runs to the end of every text, and its warnings are, in
\* token order, one for each token that has a ":" and whose text after the
\* first ":" is not an integer.
ParseProcessesEveryToken ==
    trigger = "call" =>
        /\ exception = "none"
        /\ messages = ExpectedWarnings(UnitTokens, 1)

ColonCount(tok) == Cardinality({i \in 1..Len(tok) : tok[i] = ":"})

AtMostOneColonEach == \A i \in 1..Len(UnitTokens) : ColonCount(UnitTokens[i]) <= 1

\* The tokens that carry a label and an integer count.
ValidTokens ==
    {i \in 1..Len(UnitTokens) :
        PyContains(UnitTokens[i], ":") /\ PyInt(CountTextOf(UnitTokens[i])).ok}

CountOf(i) == PyInt(CountTextOf(UnitTokens[i])).val

\* For each label, the count of the last valid token that has it.
ReferenceFold ==
    LET keys == {LabelOf(UnitTokens[i]) : i \in ValidTokens}
        last(k) == CHOOSE i \in ValidTokens :
                       /\ LabelOf(UnitTokens[i]) = k
                       /\ \A j \in ValidTokens :
                              LabelOf(UnitTokens[j]) = k => j <= i
    IN  [k \in keys |-> CountOf(last(k))]

\* C3: when no token has more than one ":", the parsed mapping is the
\* reference fold: each label maps to the count of the last token with that
\* label and an integer count, and no other token leaves a trace.
UnitMixIsLastWriteFold ==
    (trigger = "call" /\ AtMostOneColonEach) =>
        /\ exception = "none"
        /\ units_by_type_dict = ReferenceFold

\* A label given two different counts holds the later one.
UnitMixOverwritten ==
    /\ trigger = "call"
    /\ AtMostOneColonEach
    /\ \E i \in ValidTokens, j \in ValidTokens :
           /\ i < j
           /\ LabelOf(UnitTokens[i]) = LabelOf(UnitTokens[j])
           /\ CountOf(i) # CountOf(j)
           /\ LabelOf(UnitTokens[j]) \in DOMAIN units_by_type_dict
           /\ units_by_type_dict[LabelOf(UnitTokens[j])] = CountOf(j)

\* C4: every count stored in the unit mix is a non-negative integer.
UnitCountsNonNegative ==
    trigger = "call" =>
        \A k \in DOMAIN units_by_type_dict : units_by_type_dict[k] >= 0

InputTotal ==
    widgets.nums.bldg_sqft * widgets.nums.cost_per_sqft
        + widgets.nums.conversion_costs

\* C5: evaluate raises nothing; ROI is exactly 0 when the total development
\* cost is 0, otherwise it is (condoSellout - total) / total * 100, and it
\* is negative exactly when condoSellout is below the total.
RoiDefinition ==
    evaluations > 0 =>
        /\ exception = "none"
        /\ "roi" \in bound
        /\ IF InputTotal = 0
           THEN roi = [num |-> 0, den |-> 1]
           ELSE /\ roi.den > 0
                /\ GCD(Abs(roi.num), roi.den) = 1
                /\ InputTotal % roi.den = 0
                /\ (InputTotal \div roi.den) * roi.num
                       = (widgets.nums.condo_sellout - InputTotal) * 100
                /\ (roi.num < 0 <=> widgets.nums.condo_sellout < InputTotal)

\* The boundary case: no cost, a positive sell-out, ROI 0.
RoiZeroCostReached ==
    /\ evaluations > 0
    /\ InputTotal = 0
    /\ widgets.nums.condo_sellout > 0
    /\ "roi" \in bound
    /\ roi.num = 0

\* C6: total cost is bldgSqFt * costPerSqFt + conversionCosts, profit is
\* condoSellout - total cost, NOI is rentalIncome - operatingExpenses; the
\* default inputs give 13000000, 7000000 and 800000.
MetricsFormulas ==
    evaluations > 0 =>
        /\ {"total_cost", "noi", "profit"} \subseteq bound
        /\ total_cost = InputTotal
        /\ profit = widgets.nums.condo_sellout - InputTotal
        /\ noi = widgets.nums.rental_income - widgets.nums.operating_expenses
        /\ widgets.nums = DefaultNums =>
               total_cost = 13000000 /\ noi = 800000 /\ profit = 7000000

\* The default inputs evaluated.
DefaultsEvaluated ==
    /\ evaluations > 0
    /\ widgets.nums = DefaultNums
    /\ total_cost = 13000000

\* C7: a "fetch rent estimate" cycle calls the stub once; it returns 2500
\* whatever the address and the key, shows its notice, and sends nothing.
RentStubIsConstant ==
    trigger = "fetch_rent" =>
        /\ calls = <<"get_zillow_rent_zestimate">>
        /\ "avg_dwelling_price_rent" \in bound
        /\ avg_dwelling_price_rent = 2500
        /\ Shown(Note("warning", "zillow"))
        /\ http_requests = 0

\* The stub called with an address and a key typed in.
RentStubCalledWithInputs ==
    /\ trigger = "fetch_rent"
    /\ widgets.property_address # <<>>
    /\ widgets.zillow_api_key # <<>>
    /\ avg_dwelling_price_rent = 2500

Metrics == {"total_cost", "noi", "profit", "roi"}

\* C8: a cycle makes at most one gateway call or one metric computation,
\* never both; the metrics are computed only in a cycle started by
\* "evaluate", and each gateway function is called only in the cycle its
\* own button started.
OneOperationPerCycle ==
    /\ Len(calls) + evaluations <= 1
    /\ (evaluations > 0 \/ bound \cap Metrics # {}) => trigger = "evaluate"
    /\ \A i \in 1..Len(calls) :
           /\ calls[i] = "get_census_data" => trigger = "fetch_income"
           /\ calls[i] = "get_zillow_rent_zestimate" => trigger = "fetch_rent"
    /\ http_requests > 0 => trigger = "fetch_income"

\* An "evaluate" cycle computed the metrics and called no gateway.
EvaluateCycleComputed ==
    /\ trigger = "evaluate"
    /\ evaluations = 1
    /\ Metrics \subseteq bound
    /\ calls = <<>>

\* C10: in every cycle not started by "fetch income" the income value is
\* 85000, and in every cycle not started by "fetch rent estimate" the rent
\* value is 2500.
NoFetchedValueSurvives ==
    /\ trigger # "fetch_income" =>
           "avg_income" \in bound /\ avg_income = PyIntV(85000)
    /\ trigger # "fetch_rent" =>
           "avg_dwelling_price_rent" \in bound /\ avg_dwelling_price_rent = 2500

RECURSIVE StripEach(_)
StripEach(segs) ==
    IF segs = <<>> THEN <<>>
    ELSE <<PyStrip(Head(segs))>> \o StripEach(Tail(segs))

\* C9: each list field is the sequence of the comma-separated segments of
\* its text, in order, each trimmed, empty segments kept.
ListFieldsTrimmed ==
    trigger = "call" =>
        /\ gov_programs = StripEach(PySplit(widgets.gov_text, ","))
        /\ improvement_districts
               = StripEach(PySplit(widgets.districts_text, ","))
====
